---------------------------- MODULE Spec2Model ----------------------------
(***************************************************************************)
(* Model of `buildah mount` (cmd/buildah/mount.go, func mountCmd).         *)
(*                                                                         *)
(* One invocation of mountCmd is a sequential process.  Its state is the   *)
(* function's arguments and locals (args, outputJSON, jsonMounts,          *)
(* lastError, the loop position), what it has written to the two output    *)
(* streams, the calls it has made to its collaborators (the store and the  *)
(* builders) and the error it returned.  The collaborators' answers are    *)
(* not decided by mountCmd, so each call draws its answer with \E.         *)
(*                                                                         *)
(* Strings are kept as strings: the text lines, the wrapped error          *)
(* messages and the lines of the JSON document are built the way fmt,      *)
(* errors.Wrapf and json.MarshalIndent build them.                         *)
(***************************************************************************)
EXTENDS Integers, Sequences, FiniteSets, TLC

(* ------------------------------ bounds -------------------------------- *)

\* longest target list given on the command line
MaxArgs == 3

\* most containers the store enumerates in the no-args branch
MaxBuilders == 3

(* ------------------------- the input domains -------------------------- *)

\* What a caller may pass as a target: a container name or a container ID.
\* Both are non-empty (the store resolves no container from "").
Idents == {"c1", "f00d"}

\* builder.Container of the builder openBuilder returns for an identifier:
\* "c1" is a container's name, "f00d" is the ID of the container named "c2".
ContainerOf(name) == IF name = "f00d" THEN "c2" ELSE name

\* the names of the containers the store enumerates, in the store's order
ContainerNames == <<"c1", "c2", "c3", "c4", "c5">>

\* every container of the store
Containers == {ContainerNames[k] : k \in 1..Len(ContainerNames)}

\* paths builder.Mount may return / builder.MountPoint may hold
MountPoints == {"/m/a", "/m/b"}

\* os.Geteuid(): root or an unprivileged user
Euids == {0, 1000}

\* store.GraphDriverName(); there is no driver name before a store is open
Drivers == {"vfs", "overlay"}
NoDriver == ""

\* the nil error
Nil == "<nil>"

\* the errors the collaborators report
ErrFlagOrder == "No options can be specified after the image or container name"
ErrStore == "cannot open store"
ErrNotKnown == "container not known"
ErrMount == "mount failed"
ErrList == "cannot list containers"
ErrMountedQuery == "cannot query mount count"

VARIABLES
    pc,          \* position in mountCmd; "returnNN" = returned at line NN
    args,        \* the targets, in request order
    outputJSON,  \* the --json flag
    euid,        \* os.Geteuid()
    driver,      \* store.GraphDriverName() (NoDriver until getStore returns a store)
    i,           \* index of the loop of line 80 / line 117
    builder,     \* the builder of the current iteration of the loop of line 80
    builders,    \* the builders openBuilders returned
    jsonMounts,  \* the slice of line 69 (nil until the first append)
    lastError,   \* the pending failure of line 70
    writes,      \* every write to os.Stdout / os.Stderr, in the order made
    calls,       \* every call to the store and to builders, in the order made
    mounts,      \* per container, the mounts this invocation added in the store
    ret          \* the error mountCmd returned (Nil before it returns)

vars == <<pc, args, outputJSON, euid, driver, i, builder, builders,
          jsonMounts, lastError, writes, calls, mounts, ret>>

(* --------------------------- pure helpers ----------------------------- *)

\* fmt's %q of an identifier
Quote(s) == "\"" \o s \o "\""

\* errors.Wrapf(err, msg): the message is "<msg>: <cause>"
Wrapf(err, msg) == msg \o ": " \o err

\* errors.Wrapf(err, "error reading build container %q", name)
ReadError(err, name) == Wrapf(err, "error reading build container " \o Quote(name))

\* errors.Wrapf(err, "error mounting %q container %q", name, builder.Container)
MountError(err, name, container) ==
    Wrapf(err, "error mounting " \o Quote(name) \o " container " \o Quote(container))

\* errors.Errorf("cannot mount using driver %s in rootless mode. ...", driver)
\* (the message's two backquotes are left out: a TLA+ string cannot hold them)
UnsupportedModeError(drv) ==
    "cannot mount using driver " \o drv
        \o " in rootless mode. You need to run it in a buildah unshare session"

\* mutant: the driver test of line 76 inverted
GuardRejects_InvertedDriver(uid, drv) == uid # 0 /\ drv = "vfs"

\* the condition of line 76
GuardRejects(uid, drv) == uid # 0 /\ drv # "vfs"

\* one write of `lines` to a stream
Write(fd, lines) == [fd |-> fd, data |-> lines]

\* mutant: the superseded failure is dropped without a diagnostic
PrintPending_Silent(w, pending) == w

\* lines 83-85 and 91-93: the pending failure, if any, goes to os.Stderr
PrintPending(w, pending) ==
    IF pending # Nil THEN Append(w, Write("stderr", <<pending>>)) ELSE w

\* a nil slice, and append() on a slice
NilSlice == [isNil |-> TRUE, items |-> <<>>]
AppendSlice(s, e) == [isNil |-> FALSE, items |-> Append(s.items, e)]

\* mutant: the identifier is set whatever the number of targets
ResultEntry_AlwaysNamed(n, name, mp) == [Container |-> name, MountPoint |-> mp]

\* the jsonMount literal of lines 99 / 105: Container is left at its zero
\* value when a single target was requested
ResultEntry(n, name, mp) ==
    IF n > 1 THEN [Container |-> name, MountPoint |-> mp]
             ELSE [Container |-> "", MountPoint |-> mp]

\* the line of lines 102 / 108
ResultLine(n, name, mp) == IF n > 1 THEN name \o " " \o mp ELSE mp

\* mutant: the literal of line 105 in the place of that of line 124
ListEntry_Unnamed(b) == [Container |-> "", MountPoint |-> b.MountPoint]

\* the jsonMount literal of line 124 and the line of line 127
ListEntry(b) == [Container |-> b.Container, MountPoint |-> b.MountPoint]
ListLine(b) == b.Container \o " " \o b.MountPoint

(* json.MarshalIndent(v, "", "    ") of a []jsonMount, as lines.            *)
(* A nil slice encodes as null, an empty non-nil slice as [].  A field      *)
(* tagged omitempty is left out when it is "".                              *)
MarshalObject(e, last) ==
    <<"    {">>
    \o (IF e.Container # ""
          THEN <<"        \"container\": " \o Quote(e.Container) \o ",">>
          ELSE <<>>)
    \o <<"        \"mountPoint\": " \o Quote(e.MountPoint)>>
    \o <<(IF last THEN "    }" ELSE "    },")>>

RECURSIVE MarshalItems(_, _)
MarshalItems(items, k) ==
    IF k > Len(items) THEN <<>>
    ELSE MarshalObject(items[k], k = Len(items)) \o MarshalItems(items, k + 1)

MarshalIndent(s) ==
    IF s.isNil THEN <<"null">>
    ELSE IF s.items = <<>> THEN <<"[]">>
    ELSE <<"[">> \o MarshalItems(s.items, 1) \o <<"]">>

\* one call to a collaborator and its answer
Call(op, arg, res) == [op |-> op, arg |-> arg, res |-> res]

NoBuilder == [Container |-> "", MountPoint |-> ""]

\* after target / builder number k: the next iteration, or the end of the loop
AfterIteration(k, n) == IF k < n THEN k + 1 ELSE n + 1

(* ------------------------------- Init --------------------------------- *)

ArgLists == UNION {[1..n -> Idents] : n \in 0..MaxArgs}

Init ==
    /\ pc = "verify"
    /\ args \in ArgLists
    /\ outputJSON \in BOOLEAN
    /\ euid \in Euids
    /\ driver = NoDriver
    /\ i = 0
    /\ builder = NoBuilder
    /\ builders = <<>>
    /\ jsonMounts = NilSlice
    /\ lastError = Nil
    /\ writes = <<>>
    /\ calls = <<>>
    /\ mounts = [c \in Containers |-> 0]
    /\ ret = Nil

(* ------------------------------ actions ------------------------------- *)

\* lines 61-63: the check of the order of flags and arguments is decided
\* outside mountCmd; it passes or it returns its error
VerifyFlagsArgsOrder ==
    /\ pc = "verify"
    /\ \E ok \in BOOLEAN :
        IF ok THEN /\ pc' = "getStore"
                   /\ ret' = ret
              ELSE /\ pc' = "return62"
                   /\ ret' = ErrFlagOrder
    /\ UNCHANGED <<mounts, args, outputJSON, euid, driver, i, builder, builders,
                   jsonMounts, lastError, writes, calls>>

\* lines 65-68: getStore returns the store, whose graph driver is then known,
\* or its error
GetStore ==
    /\ pc = "getStore"
    /\ \/ \E drv \in Drivers :
            /\ driver' = drv
            /\ pc' = "guard"
            /\ ret' = ret
            /\ calls' = Append(calls, Call("getStore", "", "ok"))
       \/ /\ pc' = "return67"
          /\ ret' = ErrStore
          /\ calls' = Append(calls, Call("getStore", "", ErrStore))
          /\ driver' = driver
    /\ UNCHANGED <<mounts, args, outputJSON, euid, i, builder, builders,
                   jsonMounts, lastError, writes>>

\* mutant: the test of line 76 is made before the test of line 71
Guard_BeforeBranch ==
    /\ pc = "guard"
    /\ IF GuardRejects(euid, driver)
         THEN /\ pc' = "return77"
              /\ ret' = UnsupportedModeError(driver)
              /\ i' = i
         ELSE IF Len(args) > 0
                THEN /\ pc' = "open"
                     /\ ret' = ret
                     /\ i' = 1
                ELSE /\ pc' = "openBuilders"
                     /\ ret' = ret
                     /\ i' = i
    /\ UNCHANGED <<mounts, args, outputJSON, euid, driver, builder, builders,
                   jsonMounts, lastError, writes, calls>>

\* lines 71-78, and the else of line 111
Guard ==
    /\ pc = "guard"
    /\ IF Len(args) > 0
         THEN IF GuardRejects(euid, driver)
                THEN /\ pc' = "return77"
                     /\ ret' = UnsupportedModeError(driver)
                     /\ i' = i
                ELSE /\ pc' = "open"
                     /\ ret' = ret
                     /\ i' = 1
         ELSE /\ pc' = "openBuilders"
              /\ ret' = ret
              /\ i' = i
    /\ UNCHANGED <<mounts, args, outputJSON, euid, driver, builder, builders,
                   jsonMounts, lastError, writes, calls>>

\* mutant: the loop of line 80 is left after its first iteration
NextTarget_Break(k) == "output"

\* mutant: the loop of line 80 ends one target early
NextTarget_OffByOne(k) == IF k + 1 < Len(args) THEN "open" ELSE "output"

\* where the loop of line 80 goes after target k
NextTarget(k) == IF k < Len(args) THEN "open" ELSE "output"

\* mutant: every failure is printed at once, when it happens
Fail_PrintNow(err) ==
    /\ writes' = Append(writes, Write("stderr", <<err>>))
    /\ lastError' = err

\* mutant: the first failure is kept, later ones are not recorded
Fail_KeepFirst(err) ==
    /\ writes' = PrintPending(writes, lastError)
    /\ lastError' = IF lastError = Nil THEN err ELSE lastError

\* lines 83-86 and 91-94: the failure before it is printed, the new one is kept
Fail(err) ==
    /\ writes' = PrintPending(writes, lastError)
    /\ lastError' = err

\* mutant: the continue of line 87 is missing, the mount is tried anyway
OpenBuilder_MountAnyway ==
    /\ pc = "open"
    /\ \E ok \in BOOLEAN :
        IF ok
          THEN /\ builder' = [Container |-> ContainerOf(args[i]), MountPoint |-> ""]
               /\ calls' = Append(calls, Call("openBuilder", args[i], "ok"))
               /\ pc' = "mount"
               /\ UNCHANGED <<i, lastError, writes>>
          ELSE /\ calls' = Append(calls, Call("openBuilder", args[i], ErrNotKnown))
               /\ Fail(ReadError(ErrNotKnown, args[i]))
               /\ pc' = "mount"
               /\ i' = i
               /\ builder' = NoBuilder
    /\ UNCHANGED <<mounts, args, outputJSON, euid, driver, builders, jsonMounts, ret>>

\* lines 81-88: resolve target i
OpenBuilder ==
    /\ pc = "open"
    /\ \E ok \in BOOLEAN :
        IF ok
          THEN /\ builder' = [Container |-> ContainerOf(args[i]), MountPoint |-> ""]
               /\ calls' = Append(calls, Call("openBuilder", args[i], "ok"))
               /\ pc' = "mount"
               /\ UNCHANGED <<i, lastError, writes>>
          ELSE /\ calls' = Append(calls, Call("openBuilder", args[i], ErrNotKnown))
               /\ Fail(ReadError(ErrNotKnown, args[i]))
               /\ pc' = NextTarget(i)
               /\ i' = AfterIteration(i, Len(args))
               /\ builder' = NoBuilder
    /\ UNCHANGED <<mounts, args, outputJSON, euid, driver, builders, jsonMounts, ret>>

\* mutant: in text mode the line of a mounted target is not printed
Report_Silent(n, json, name, mp, w) == w

\* lines 97-109: report the mount of target `name` at `mp`
Report(n, json, name, mp, w) ==
    IF json THEN w ELSE Append(w, Write("stdout", <<ResultLine(n, name, mp)>>))

\* mutant: a target already among the results is not collected again
Collect_Dedup(n, json, name, mp, s) ==
    IF json /\ ~(\E k \in 1..Len(s.items) : s.items[k].Container = name)
      THEN AppendSlice(s, ResultEntry(n, name, mp))
      ELSE s

Collect(n, json, name, mp, s) ==
    IF json THEN AppendSlice(s, ResultEntry(n, name, mp)) ELSE s

\* line 89: a builder.Mount that succeeds adds one mount of its container
AddMount(m, c) == [m EXCEPT ![c] = @ + 1]

\* lines 89-110: mount target i and report it
Mount ==
    /\ pc = "mount"
    /\ \/ \E mp \in MountPoints :
            /\ calls' = Append(calls, Call("Mount", builder.Container, mp))
            /\ mounts' = AddMount(mounts, builder.Container)
            /\ writes' = Report(Len(args), outputJSON, args[i], mp, writes)
            /\ jsonMounts' = Collect(Len(args), outputJSON, args[i], mp, jsonMounts)
            /\ lastError' = lastError
       \/ /\ calls' = Append(calls, Call("Mount", builder.Container, ErrMount))
          /\ Fail(MountError(ErrMount, args[i], builder.Container))
          /\ jsonMounts' = jsonMounts
          /\ mounts' = mounts
    /\ pc' = NextTarget(i)
    /\ i' = AfterIteration(i, Len(args))
    /\ builder' = NoBuilder
    /\ UNCHANGED <<args, outputJSON, euid, driver, builders, ret>>

\* the lists of builders openBuilders may return: the first n containers of
\* the store, each with the mount point its saved state holds ("" if none)
BuilderLists ==
    UNION {[1..n -> [Container : {"x"}, MountPoint : MountPoints \cup {""}]]
             : n \in 0..MaxBuilders}

Named(bs) == [k \in 1..Len(bs) |->
                 [Container |-> ContainerNames[k], MountPoint |-> bs[k].MountPoint]]

\* where the loop of line 117 goes after builder k of n
NextBuilder(k, n) == IF k < n THEN "mounted" ELSE "output"

\* lines 112-115
OpenBuilders ==
    /\ pc = "openBuilders"
    /\ \/ \E bs \in BuilderLists :
            /\ builders' = Named(bs)
            /\ calls' = Append(calls, Call("openBuilders", "", "ok"))
            /\ pc' = NextBuilder(0, Len(bs))
            /\ i' = AfterIteration(0, Len(bs))
            /\ ret' = ret
       \/ /\ calls' = Append(calls, Call("openBuilders", "", ErrList))
          /\ ret' = Wrapf(ErrList, "error reading build containers")
          /\ pc' = "return114"
          /\ UNCHANGED <<builders, i>>
    /\ UNCHANGED <<mounts, args, outputJSON, euid, driver, builder, jsonMounts,
                   lastError, writes>>

\* mutant: the line of line 127 is printed in JSON mode too
ReportListed_AnyMode(json, mounted, b, w) ==
    IF mounted THEN Append(w, Write("stdout", <<ListLine(b)>>)) ELSE w

\* mutant: in JSON mode each mounted container is written at once, as a
\* document of its own
ReportListed_Incremental(json, mounted, b, w) ==
    IF ~mounted THEN w
    ELSE IF json
      THEN Append(w, Write("stdout", MarshalIndent(AppendSlice(NilSlice, ListEntry(b)))))
      ELSE Append(w, Write("stdout", <<ListLine(b)>>))

\* lines 122-128: report builder b if it is mounted
ReportListed(json, mounted, b, w) ==
    IF mounted /\ ~json THEN Append(w, Write("stdout", <<ListLine(b)>>)) ELSE w

CollectListed(json, mounted, b, s) ==
    IF mounted /\ json THEN AppendSlice(s, ListEntry(b)) ELSE s

\* mutant: the loop of line 117 goes on after a failed query
QueryFailed_Continue(err) ==
    /\ ret' = ret
    /\ pc' = NextBuilder(i, Len(builders))
    /\ i' = AfterIteration(i, Len(builders))

\* lines 119-121: the query's error ends the command
QueryFailed(err) ==
    /\ ret' = err
    /\ pc' = "return120"
    /\ i' = i

\* mutant: a container that is not mounted is mounted and listed
Mounted_MountsUnmounted ==
    /\ pc = "mounted"
    /\ \/ \E mounted \in BOOLEAN :
            /\ calls' = IF mounted
                           THEN Append(calls, Call("Mounted", builders[i].Container, "true"))
                           ELSE Append(Append(calls,
                                    Call("Mounted", builders[i].Container, "false")),
                                    Call("Mount", builders[i].Container, "/m/a"))
            /\ mounts' = IF mounted THEN mounts
                                    ELSE AddMount(mounts, builders[i].Container)
            /\ writes' = ReportListed(outputJSON, TRUE, builders[i], writes)
            /\ jsonMounts' = CollectListed(outputJSON, TRUE, builders[i], jsonMounts)
            /\ pc' = NextBuilder(i, Len(builders))
            /\ i' = AfterIteration(i, Len(builders))
            /\ ret' = ret
       \/ /\ calls' = Append(calls, Call("Mounted", builders[i].Container,
                                         ErrMountedQuery))
          /\ QueryFailed(ErrMountedQuery)
          /\ UNCHANGED <<writes, jsonMounts, mounts>>
    /\ UNCHANGED <<args, outputJSON, euid, driver, builder, builders, lastError>>

\* lines 117-129: query builder i
Mounted ==
    /\ pc = "mounted"
    /\ \/ \E mounted \in BOOLEAN :
            /\ calls' = Append(calls, Call("Mounted", builders[i].Container,
                                           IF mounted THEN "true" ELSE "false"))
            /\ writes' = ReportListed(outputJSON, mounted, builders[i], writes)
            /\ jsonMounts' = CollectListed(outputJSON, mounted, builders[i], jsonMounts)
            /\ pc' = NextBuilder(i, Len(builders))
            /\ i' = AfterIteration(i, Len(builders))
            /\ ret' = ret
       \/ /\ calls' = Append(calls, Call("Mounted", builders[i].Container,
                                         ErrMountedQuery))
          /\ QueryFailed(ErrMountedQuery)
          /\ UNCHANGED <<writes, jsonMounts>>
    /\ UNCHANGED <<mounts, args, outputJSON, euid, driver, builder, builders, lastError>>

\* mutant: the document is written only when no failure is pending
PrintJSON_OnlyOnSuccess(json, s, w) ==
    IF json /\ lastError = Nil THEN Append(w, Write("stdout", MarshalIndent(s))) ELSE w

\* lines 132-138: the JSON document, written once.  json.MarshalIndent
\* returns no error for a slice of structs of two strings, so the return of
\* line 135 is never taken.
PrintJSON(json, s, w) ==
    IF json THEN Append(w, Write("stdout", MarshalIndent(s))) ELSE w

\* lines 132-140
Output ==
    /\ pc = "output"
    /\ writes' = PrintJSON(outputJSON, jsonMounts, writes)
    /\ ret' = lastError
    /\ pc' = "return140"
    /\ UNCHANGED <<mounts, args, outputJSON, euid, driver, i, builder, builders,
                   jsonMounts, lastError, calls>>

Next ==
    \/ VerifyFlagsArgsOrder
    \/ GetStore
    \/ Guard
    \/ OpenBuilder
    \/ Mount
    \/ OpenBuilders
    \/ Mounted
    \/ Output

Spec == Init /\ [][Next]_vars

\* mountCmd runs on one goroutine and every call it makes is synchronous:
\* while it has not returned, it takes its next step.
FairSpec == Spec /\ WF_vars(Next)

(* ====================================================================== *)
(* What an invocation shows to the outside                                *)
(* ====================================================================== *)

Stdout == SelectSeq(writes, LAMBDA w : w.fd = "stdout")
Stderr == SelectSeq(writes, LAMBDA w : w.fd = "stderr")

ReturnPcs == {"return62", "return67", "return77", "return114", "return120",
              "return140"}
Returned == pc \in ReturnPcs

ResolveCalls == SelectSeq(calls, LAMBDA c : c.op = "openBuilder")
MountCalls == SelectSeq(calls, LAMBDA c : c.op = "Mount")
MountedCalls == SelectSeq(calls, LAMBDA c : c.op = "Mounted")

\* The attempts made on the targets so far, one per resolution, read off the
\* call log: the identifier resolved, the answer of openBuilder and the
\* answer of the Mount that followed ("-" when none was or is yet made).
RECURSIVE AttemptsFrom(_, _)
AttemptsFrom(cs, k) ==
    IF k > Len(cs) THEN <<>>
    ELSE IF cs[k].op # "openBuilder" THEN AttemptsFrom(cs, k + 1)
    ELSE IF cs[k].res = "ok" /\ k < Len(cs) /\ cs[k + 1].op = "Mount"
      THEN <<[name |-> cs[k].arg, open |-> "ok", container |-> cs[k + 1].arg,
              mount |-> cs[k + 1].res]>> \o AttemptsFrom(cs, k + 2)
      ELSE <<[name |-> cs[k].arg, open |-> cs[k].res, container |-> "",
              mount |-> "-"]>> \o AttemptsFrom(cs, k + 1)

Attempts == AttemptsFrom(calls, 1)

ResolutionFailed(a) == a.open # "ok"
MountFailed(a) == a.open = "ok" /\ a.mount \notin (MountPoints \cup {"-"})
Failed(a) == ResolutionFailed(a) \/ MountFailed(a)
Succeeded(a) == a.open = "ok" /\ a.mount \in MountPoints

\* the text of the Failure Record of a failed attempt
FailureText(a) ==
    IF ResolutionFailed(a)
      THEN "error reading build container \"" \o a.name \o "\": " \o a.open
      ELSE "error mounting \"" \o a.name \o "\" container \"" \o a.container
               \o "\": " \o a.mount

FailedSet == {k \in 1..Len(Attempts) : Failed(Attempts[k])}
SucceededSet == {k \in 1..Len(Attempts) : Succeeded(Attempts[k])}

\* the index of the m-th failed / succeeded attempt
NthFailed(m) ==
    CHOOSE k \in FailedSet : Cardinality({j \in FailedSet : j <= k}) = m
NthSucceeded(m) ==
    CHOOSE k \in SucceededSet : Cardinality({j \in SucceededSet : j <= k}) = m

\* the failures so far, in the order they occurred
FailureTexts ==
    [m \in 1..Cardinality(FailedSet) |-> FailureText(Attempts[NthFailed(m)])]

\* the lines written to a stream, one per write of one line
LinesOf(ws) == [k \in 1..Len(ws) |-> ws[k].data[1]]

\* the position in `writes` of the m-th write to os.Stderr
StderrPos(m) ==
    CHOOSE p \in 1..Len(writes) :
        /\ writes[p].fd = "stderr"
        /\ Cardinality({q \in 1..p : writes[q].fd = "stderr"}) = m

StdoutBefore(p) == Cardinality({q \in 1..(p - 1) : writes[q].fd = "stdout"})
SucceededBefore(k) == Cardinality({j \in SucceededSet : j < k})

ExplicitBranch == Len(args) > 0
ListBranch == Len(args) = 0

(* ====================================================================== *)
(* C1                                                                     *)
(* ====================================================================== *)

\* C1: with at least one explicit target, an effective uid other than 0 and
\* a store whose graph driver is not vfs, the command goes from the guard
\* straight to the return of line 77 with the unsupported-mode error that
\* names the driver; it resolves no container, mounts nothing and writes
\* nothing, whatever the number of targets and the output mode.
C1_GuardRejectsUpFront ==
    (ExplicitBranch /\ euid # 0 /\ driver \notin {NoDriver, "vfs"}) =>
        /\ pc \in {"guard", "return77"}
        /\ pc = "return77" =>
              ret = "cannot mount using driver " \o driver
                      \o " in rootless mode. You need to run it in a buildah unshare session"
        /\ ResolveCalls = <<>>
        /\ MountCalls = <<>>
        /\ MountedCalls = <<>>
        /\ writes = <<>>

C1_Witness ==
    /\ pc = "return77"
    /\ Len(args) >= 2
    /\ outputJSON
    /\ euid # 0
    /\ driver = "overlay"

(* ====================================================================== *)
(* C2                                                                     *)
(* ====================================================================== *)

\* the batch [A, B, C] of the claim, text mode, after the command returned:
\* A failed resolution, B was mounted, C was resolved and failed to mount
C2_Scenario ==
    /\ ~outputJSON
    /\ pc = "return140"
    /\ Len(args) = 3
    /\ Len(Attempts) = 3
    /\ ResolutionFailed(Attempts[1])
    /\ Succeeded(Attempts[2])
    /\ MountFailed(Attempts[3])

C2_DiagnosticOfA == Write("stderr", <<FailureText(Attempts[1])>>)
C2_LineOfB == Write("stdout", <<Attempts[2].name \o " " \o Attempts[2].mount>>)

PositionsOf(w) == {p \in 1..Len(writes) : writes[p] = w}

\* C2 as claimed: in the batch [A, B, C] exactly one diagnostic line for A is
\* written, and it is written before B's success line.
C2_DiagnosticBeforeSuccess ==
    C2_Scenario =>
        /\ Cardinality(PositionsOf(C2_DiagnosticOfA)) = 1
        /\ \A p \in PositionsOf(C2_DiagnosticOfA) :
             \A q \in PositionsOf(C2_LineOfB) : p < q

\* C2 as amended: in text mode the diagnostic of a failure is written when
\* the next failure occurs.  The m-th diagnostic is the text of the m-th
\* failure, there is an (m+1)-th failure, and the success lines written
\* before that diagnostic are those of the targets that succeeded before the
\* (m+1)-th failed target.  In the batch [A, B, C] the writes are B's success
\* line and then the one diagnostic for A.
C2_DiagnosticWhenSuperseded ==
    (~outputJSON /\ ExplicitBranch) =>
        /\ \A m \in 1..Len(Stderr) :
              /\ m + 1 <= Cardinality(FailedSet)
              /\ Stderr[m].data = <<FailureText(Attempts[NthFailed(m)])>>
              /\ StdoutBefore(StderrPos(m)) = SucceededBefore(NthFailed(m + 1))
        /\ C2_Scenario => writes = <<C2_LineOfB, C2_DiagnosticOfA>>

C2_Witness ==
    /\ C2_Scenario
    /\ Attempts[1].name # Attempts[2].name

(* ====================================================================== *)
(* C3                                                                     *)
(* ====================================================================== *)

LastFailed == CHOOSE k \in FailedSet : \A j \in FailedSet : j <= k

\* C3: when an explicit-target batch that passed the guard returns, every
\* target has been attempted and the returned error is the failure of the
\* last target that failed resolution or mount, nil when none failed: an
\* earlier failure is not returned and a later success does not clear it.
\* The command fails iff some target failed.
C3_ReturnsLastFailure ==
    (pc = "return140" /\ ExplicitBranch) =>
        /\ Len(Attempts) = Len(args)
        /\ \A k \in 1..Len(args) : Attempts[k].name = args[k]
        /\ ret = IF FailedSet = {} THEN Nil ELSE FailureText(Attempts[LastFailed])
        /\ (ret # Nil) <=> (FailedSet # {})

C3_Witness ==
    /\ pc = "return140"
    /\ Len(args) = 3
    /\ ResolutionFailed(Attempts[1])
    /\ MountFailed(Attempts[2])
    /\ Succeeded(Attempts[3])
    /\ ret = FailureText(Attempts[2])
    /\ ret # FailureText(Attempts[1])

(* ====================================================================== *)
(* C4                                                                     *)
(* ====================================================================== *)

\* the failure that is pending, or was returned: at most one
Pending ==
    IF pc = "return140" THEN (IF ret = Nil THEN <<>> ELSE <<ret>>)
    ELSE (IF lastError = Nil THEN <<>> ELSE <<lastError>>)

\* C4: at every point of the explicit-target loop, and when the command
\* returns, the diagnostic lines written so far followed by the pending
\* (at the end: returned) failure are exactly the failures that occurred, in
\* the order they occurred.  So each failure is surfaced once, k failures
\* give k-1 diagnostic lines, and no failure gives none.
C4_EveryFailureSurfacedOnce ==
    ExplicitBranch =>
        /\ \A m \in 1..Len(Stderr) : Len(Stderr[m].data) = 1
        /\ LinesOf(Stderr) \o Pending = FailureTexts
        /\ pc = "return140" =>
              Len(Stderr) = (IF FailedSet = {} THEN 0 ELSE Cardinality(FailedSet) - 1)

C4_Witness ==
    /\ pc = "return140"
    /\ Cardinality(FailedSet) = 3
    /\ Len(Stderr) = 2
    /\ ResolutionFailed(Attempts[1])
    /\ MountFailed(Attempts[2])
    /\ Stderr[1].data[1] # Stderr[2].data[1]

(* ====================================================================== *)
(* C5                                                                     *)
(* ====================================================================== *)

\* no Mount Result was collected: no target was mounted, no enumerated
\* container answered that it is mounted
NoResults ==
    /\ SucceededSet = {}
    /\ \A k \in 1..Len(MountedCalls) : MountedCalls[k].res # "true"

\* C5 as claimed: in JSON mode, when the command reaches its end with zero
\* Mount Results, standard output holds one document and it is the
\* two-character empty array [].
C5_EmptyArrayDocument ==
    (pc = "return140" /\ outputJSON /\ NoResults) =>
        Stdout = <<Write("stdout", <<"[]">>)>>

(* ====================================================================== *)
(* Reading the output back                                                *)
(* ====================================================================== *)

AllNames == Idents \cup {ContainerNames[k] : k \in 1..Len(ContainerNames)}
AllMountPoints == MountPoints \cup {""}

ContainerLineOf(n) == "        \"container\": \"" \o n \o "\","
MountPointLineOf(mp) == "        \"mountPoint\": \"" \o mp \o "\""

IsContainerLine(l) == \E n \in AllNames \cup {""} : l = ContainerLineOf(n)
IsMountPointLine(l) == \E mp \in AllMountPoints : l = MountPointLineOf(mp)

\* The objects of a JSON array document, decoded line by line as
\* json.Unmarshal into []jsonMount would: an object without a "container"
\* key has Container "".  "?" stands for a line that cannot be decoded.
RECURSIVE DecodeObjects(_, _)
DecodeObjects(lines, k) ==
    IF k + 2 > Len(lines) THEN <<>>
    ELSE LET named == IsContainerLine(lines[k + 1])
             m == IF named THEN k + 2 ELSE k + 1
             c == IF named
                    THEN CHOOSE n \in AllNames \cup {""} : lines[k + 1] = ContainerLineOf(n)
                    ELSE ""
             mp == IF m <= Len(lines) /\ IsMountPointLine(lines[m])
                     THEN CHOOSE x \in AllMountPoints : lines[m] = MountPointLineOf(x)
                     ELSE "?"
         IN  <<[named |-> named, Container |-> c, MountPoint |-> mp]>>
                 \o DecodeObjects(lines, m + 2)

Decode(doc) ==
    IF doc = <<"null">> \/ doc = <<"[]">> THEN <<>>
    ELSE DecodeObjects(SubSeq(doc, 2, Len(doc) - 1), 1)

\* the number of lines of an array document of these objects
RECURSIVE DocLength(_, _)
DocLength(es, k) ==
    IF k > Len(es) THEN 2
    ELSE (IF es[k].named THEN 4 ELSE 3) + DocLength(es, k + 1)

WellFormed(doc) ==
    \/ doc = <<"null">>
    \/ doc = <<"[]">>
    \/ /\ Len(doc) > 2
       /\ doc[1] = "["
       /\ doc[Len(doc)] = "]"
       /\ Len(Decode(doc)) > 0
       /\ Len(doc) = DocLength(Decode(doc), 1)
       /\ \A k \in 1..Len(Decode(doc)) : Decode(doc)[k].MountPoint # "?"

\* the targets mounted so far, in processing order
Results == [m \in 1..Cardinality(SucceededSet) |-> Attempts[NthSucceeded(m)]]

\* the enumerated containers that answered that they are mounted, in order
MountedSet == {k \in 1..Len(MountedCalls) : MountedCalls[k].res = "true"}
NthMounted(m) ==
    CHOOSE k \in MountedSet : Cardinality({j \in MountedSet : j <= k}) = m
Listed == [m \in 1..Cardinality(MountedSet) |-> builders[NthMounted(m)]]

(* ====================================================================== *)
(* C6                                                                     *)
(* ====================================================================== *)

\* C6: in the explicit-target branch the shape of a result depends only on
\* the number of targets requested.  Text mode: the m-th line written is
\* "<mountPoint>" for one target and "<identifier> <mountPoint>" for two or
\* more.  JSON mode: the m-th object of the document has no "container" key
\* for one target and has the requested identifier for two or more, also
\* when only one of several targets was mounted.
C6_IdentifierDependsOnCount ==
    ExplicitBranch =>
        /\ ~outputJSON =>
              /\ Len(Stdout) = Len(Results)
              /\ \A m \in 1..Len(Results) :
                    Stdout[m].data =
                        IF Len(args) = 1
                          THEN <<Results[m].mount>>
                          ELSE <<Results[m].name \o " " \o Results[m].mount>>
        /\ (outputJSON /\ pc = "return140") =>
              /\ Len(Stdout) = 1
              /\ WellFormed(Stdout[1].data)
              /\ Len(Decode(Stdout[1].data)) = Len(Results)
              /\ \A m \in 1..Len(Results) :
                    Decode(Stdout[1].data)[m] =
                        IF Len(args) = 1
                          THEN [named |-> FALSE, Container |-> "",
                                MountPoint |-> Results[m].mount]
                          ELSE [named |-> TRUE, Container |-> Results[m].name,
                                MountPoint |-> Results[m].mount]

\* two targets, one of them mounted, JSON mode: the one object is named
C6_Witness ==
    /\ pc = "return140"
    /\ outputJSON
    /\ Len(args) = 2
    /\ Cardinality(SucceededSet) = 1
    /\ Decode(Stdout[1].data)[1].named

(* ====================================================================== *)
(* C7                                                                     *)
(* ====================================================================== *)

\* the entry the output must hold for target k of a batch of n
ExpectedLine(n, k) ==
    IF n = 1 THEN Attempts[k].mount ELSE args[k] \o " " \o Attempts[k].mount
ExpectedObject(n, k) ==
    IF n = 1 THEN [named |-> FALSE, Container |-> "", MountPoint |-> Attempts[k].mount]
             ELSE [named |-> TRUE, Container |-> args[k], MountPoint |-> Attempts[k].mount]

\* C7: when an explicit-target batch of N targets returns and no resolution
\* and no mount failed, the returned error is nil, nothing was written to
\* the error stream, and the output has exactly N entries (text lines, or
\* objects of the JSON array), the k-th being the result of the k-th target
\* requested.
C7_AllSucceed ==
    (pc = "return140" /\ ExplicitBranch /\ FailedSet = {}) =>
        /\ ret = Nil
        /\ Stderr = <<>>
        /\ Len(Attempts) = Len(args)
        /\ \A k \in 1..Len(args) : Succeeded(Attempts[k]) /\ Attempts[k].name = args[k]
        /\ ~outputJSON =>
              /\ Len(Stdout) = Len(args)
              /\ \A k \in 1..Len(args) :
                    Stdout[k].data = <<ExpectedLine(Len(args), k)>>
        /\ outputJSON =>
              /\ Len(Stdout) = 1
              /\ WellFormed(Stdout[1].data)
              /\ Len(Decode(Stdout[1].data)) = Len(args)
              /\ \A k \in 1..Len(args) :
                    Decode(Stdout[1].data)[k] = ExpectedObject(Len(args), k)

\* three targets with a duplicate, mounted at different places
C7_Witness ==
    /\ pc = "return140"
    /\ Len(args) = 3
    /\ FailedSet = {}
    /\ args[1] = args[3]
    /\ args[1] # args[2]
    /\ Attempts[1].mount # Attempts[3].mount
    /\ outputJSON

(* ====================================================================== *)
(* C8                                                                     *)
(* ====================================================================== *)

\* the results produced so far in the no-args branch, in either mode
ListedProduced == IF outputJSON THEN Len(jsonMounts.items) ELSE Len(Stdout)

\* C8: in the no-args branch the containers are queried in enumeration
\* order, and a failed is-mounted query is the last call the command makes:
\* the command has returned the query's own error from line 120, no later
\* container was queried, the results produced are those of the mounted
\* containers before it, and no pending failure or diagnostic is involved.
C8_QueryFailureAborts ==
    /\ \A k \in 1..Len(MountedCalls) :
          /\ ListBranch
          /\ k <= Len(builders)
          /\ MountedCalls[k].arg = builders[k].Container
    /\ \A k \in 1..Len(MountedCalls) :
          MountedCalls[k].res = ErrMountedQuery =>
              /\ k = Len(MountedCalls)
              /\ calls[Len(calls)] = MountedCalls[k]
              /\ pc = "return120"
              /\ ret = ErrMountedQuery
              /\ ListedProduced = Cardinality({j \in MountedSet : j < k})
              /\ lastError = Nil
              /\ Stderr = <<>>
    /\ pc = "return120" =>
          /\ Len(MountedCalls) > 0
          /\ MountedCalls[Len(MountedCalls)].res = ErrMountedQuery

\* the query fails on the second of three enumerated containers
C8_Witness ==
    /\ pc = "return120"
    /\ Len(builders) = 3
    /\ Len(MountedCalls) = 2
    /\ MountedCalls[1].res = "true"

(* ====================================================================== *)
(* C9                                                                     *)
(* ====================================================================== *)

\* C9 as claimed: when the is-mounted query fails, nothing has been written
\* to standard output, in either output mode.
C9_NoPartialOutput == pc = "return120" => Stdout = <<>>

\* C9 as amended: when the is-mounted query fails, nothing has been written
\* to standard output in JSON mode; in text mode standard output holds the
\* "<identifier> <mountPoint>" lines of the mounted containers enumerated
\* before the failing one, in enumeration order, and nothing else.
C9_PartialOutputInTextOnly ==
    pc = "return120" =>
        /\ outputJSON => Stdout = <<>>
        /\ ~outputJSON =>
              /\ Len(Stdout) = Len(Listed)
              /\ \A m \in 1..Len(Listed) :
                    Stdout[m].data =
                        <<Listed[m].Container \o " " \o Listed[m].MountPoint>>

C9_Witness ==
    /\ pc = "return120"
    /\ ~outputJSON
    /\ Len(MountedCalls) = 3
    /\ Len(Stdout) = 2

(* ====================================================================== *)
(* C10                                                                    *)
(* ====================================================================== *)

\* every target was resolved and, if resolved, mounted or failed to mount;
\* every enumerated container was queried
AllProcessed ==
    IF ExplicitBranch
      THEN /\ Len(Attempts) = Len(args)
           /\ \A k \in 1..Len(args) : Failed(Attempts[k]) \/ Succeeded(Attempts[k])
      ELSE Len(MountedCalls) = Len(builders)

\* the objects the document must hold
ExpectedObjects ==
    IF ExplicitBranch
      THEN [m \in 1..Len(Results) |->
              IF Len(args) = 1
                THEN [named |-> FALSE, Container |-> "", MountPoint |-> Results[m].mount]
                ELSE [named |-> TRUE, Container |-> Results[m].name,
                      MountPoint |-> Results[m].mount]]
      ELSE [m \in 1..Len(Listed) |->
              [named |-> TRUE, Container |-> Listed[m].Container,
               MountPoint |-> Listed[m].MountPoint]]

\* C10: in JSON mode nothing is written to standard output before the end
\* of the command, and an invocation that ends in a fatal error writes
\* nothing to it; an invocation that reaches the end has written exactly one
\* document, as its last write, after every target (or enumerated container)
\* was processed, holding one object per mounted target in processing order,
\* also when it returns a failure.
C10_DocumentOnceAtEnd ==
    outputJSON =>
        /\ pc # "return140" => Stdout = <<>>
        /\ pc = "return140" =>
              /\ Len(Stdout) = 1
              /\ writes[Len(writes)] = Stdout[1]
              /\ AllProcessed
              /\ WellFormed(Stdout[1].data)
              /\ Decode(Stdout[1].data) = ExpectedObjects

\* a failure is returned and the document holds the two mounted targets
C10_Witness ==
    /\ pc = "return140"
    /\ outputJSON
    /\ Len(args) = 3
    /\ ret # Nil
    /\ Cardinality(SucceededSet) = 2
    /\ Len(Decode(Stdout[1].data)) = 2

(* ====================================================================== *)
(* C11                                                                    *)
(* ====================================================================== *)

\* the returns that end the command with a fatal error
FatalPcs == {"return62", "return67", "return77", "return114", "return120"}

\* a write that is, or begins, a JSON document
IsDocumentWrite(w) ==
    \/ Len(w.data) # 1
    \/ w.data[1] \in {"null", "[]", "[", "    {"}

\* C11: when the command has ended with a fatal error (a failed check of
\* the arguments or of the store, the guard's rejection, a failed
\* enumeration or a failed is-mounted query) it returned an error and wrote
\* no JSON document, whole or partial: in JSON mode standard output is
\* empty; in text mode it holds at most single text lines, and those only
\* after a failed is-mounted query.
C11_FatalWritesNoDocument ==
    pc \in FatalPcs =>
        /\ ret # Nil
        /\ outputJSON => Stdout = <<>>
        /\ \A k \in 1..Len(Stdout) : ~IsDocumentWrite(Stdout[k])
        /\ Stdout # <<>> => (~outputJSON /\ pc = "return120")
        /\ Stderr = <<>>

\* JSON mode, the query fails after a mounted container was found
C11_Witness ==
    /\ pc = "return120"
    /\ outputJSON
    /\ Len(jsonMounts.items) > 0
    /\ Stdout = <<>>

(* ====================================================================== *)
(* C12                                                                    *)
(* ====================================================================== *)

\* the line of a mounted target
LineOfResult(a) == IF Len(args) = 1 THEN a.mount ELSE a.name \o " " \o a.mount

\* C12: in the explicit-target branch, text mode, the success line of a
\* target is written in the step that mounts it: at every moment standard
\* output holds one line per target mounted so far, and right after a mount
\* succeeded, before any further call, the last write is that target's line.
\* When the batch returns a failure, standard output holds the output of
\* every target that was mounted, before or after the failed ones: all the
\* lines in text mode, one document with all the objects in JSON mode.
C12_PartialSuccessVisible ==
    ExplicitBranch =>
        /\ ~outputJSON =>
              /\ Len(Stdout) = Cardinality(SucceededSet)
              /\ (calls # <<>> /\ calls[Len(calls)].op = "Mount"
                     /\ calls[Len(calls)].res \in MountPoints) =>
                    /\ writes # <<>>
                    /\ writes[Len(writes)] =
                          Write("stdout", <<LineOfResult(Attempts[Len(Attempts)])>>)
        /\ (pc = "return140" /\ ret # Nil) =>
              /\ FailedSet # {}
              /\ ~outputJSON =>
                    LinesOf(Stdout) = [m \in 1..Len(Results) |-> LineOfResult(Results[m])]
              /\ outputJSON =>
                    /\ Len(Stdout) = 1
                    /\ Len(Decode(Stdout[1].data)) = Len(Results)
                    /\ \A m \in 1..Len(Results) :
                          Decode(Stdout[1].data)[m].MountPoint = Results[m].mount

\* text mode: mounted, failed, mounted; the failure is returned and both
\* lines are on standard output
C12_Witness ==
    /\ pc = "return140"
    /\ ~outputJSON
    /\ Len(args) = 3
    /\ Succeeded(Attempts[1])
    /\ Failed(Attempts[2])
    /\ Succeeded(Attempts[3])
    /\ ret # Nil
    /\ Len(Stdout) = 2

(* ====================================================================== *)
(* C13                                                                    *)
(* ====================================================================== *)

EnumerateCalls == SelectSeq(calls, LAMBDA c : c.op = "openBuilders")

\* before the guard, or returned before it
BeforeGuardPcs == {"verify", "getStore", "guard", "return62", "return67"}

\* C13: with an empty target list the command never returns from line 77
\* and never returns the unsupported-mode error, whatever the effective uid
\* and the graph driver; once past the test of line 71 it is about to
\* enumerate the containers or has asked the store for them, exactly once.
C13_ListSkipsGuard ==
    ListBranch =>
        /\ pc # "return77"
        /\ \A d \in Drivers \cup {NoDriver} :
              ret # "cannot mount using driver " \o d
                      \o " in rootless mode. You need to run it in a buildah unshare session"
        /\ pc \notin BeforeGuardPcs =>
              \/ pc = "openBuilders" /\ EnumerateCalls = <<>>
              \/ Len(EnumerateCalls) = 1

\* not root, overlay driver, no target: the containers were enumerated
C13_Witness ==
    /\ ListBranch
    /\ euid # 0
    /\ driver = "overlay"
    /\ pc = "return140"
    /\ Len(EnumerateCalls) = 1
    /\ Len(builders) > 0

(* ====================================================================== *)
(* C14                                                                    *)
(* ====================================================================== *)

\* C14: when the no-args branch reaches the end of the command every
\* enumerated container was queried, in enumeration order, and no query
\* failed; the returned error is nil and nothing went to the error stream.
\* The output has one entry per container that answered it is mounted, in
\* enumeration order, and none for the others.  Each entry has the
\* container's identifier and the builder's mount point: the line
\* "<identifier> <mountPoint>" in text mode, an object with both keys in
\* JSON mode, also when a single container is enumerated or mounted.
C14_ListOutput ==
    (pc = "return140" /\ ListBranch) =>
        /\ ret = Nil
        /\ Stderr = <<>>
        /\ Len(MountedCalls) = Len(builders)
        /\ \A k \in 1..Len(builders) :
              /\ MountedCalls[k].arg = builders[k].Container
              /\ MountedCalls[k].res \in {"true", "false"}
              /\ builders[k].Container # ""
        /\ ~outputJSON =>
              LinesOf(Stdout) =
                  [m \in 1..Len(Listed) |->
                      Listed[m].Container \o " " \o Listed[m].MountPoint]
        /\ outputJSON =>
              /\ Len(Stdout) = 1
              /\ WellFormed(Stdout[1].data)
              /\ Decode(Stdout[1].data) =
                    [m \in 1..Len(Listed) |->
                        [named |-> TRUE, Container |-> Listed[m].Container,
                         MountPoint |-> Listed[m].MountPoint]]

\* three containers, only the second is mounted, JSON mode
C14_Witness ==
    /\ pc = "return140"
    /\ ListBranch
    /\ outputJSON
    /\ Len(builders) = 3
    /\ MountedSet = {2}
    /\ Decode(Stdout[1].data)[1].Container = "c2"
    /\ Decode(Stdout[1].data)[1].MountPoint \in MountPoints

(* ====================================================================== *)
(* C15                                                                    *)
(* ====================================================================== *)

\* the mounts that succeeded, in the order made
OkMounts == SelectSeq(MountCalls, LAMBDA c : c.res \in MountPoints)
OkResolves == SelectSeq(ResolveCalls, LAMBDA c : c.res = "ok")

\* the mount point a text line ends with ("?" if none)
MountPointOfLine(l) ==
    IF \E x \in MountPoints : \E n \in Idents : l = x \/ l = n \o " " \o x
      THEN CHOOSE x \in MountPoints : \E n \in Idents : l = x \/ l = n \o " " \o x
      ELSE "?"

\* the mount points of the entries of the output, in output order
OutputMountPoints ==
    IF outputJSON
      THEN [m \in 1..Len(Decode(Stdout[1].data)) |-> Decode(Stdout[1].data)[m].MountPoint]
      ELSE [m \in 1..Len(Stdout) |-> MountPointOfLine(Stdout[m].data[1])]

\* the collaborator returned one mount point per container
IdempotentCollaborator ==
    \A j, k \in 1..Len(OkMounts) :
        OkMounts[j].arg = OkMounts[k].arg => OkMounts[j].res = OkMounts[k].res

\* C15: every occurrence of a target is resolved by a call of its own, in
\* request order, and every resolved occurrence is mounted by a call of its
\* own, duplicates included.  When the batch returns, the output has one
\* entry per successful mount and the m-th entry has the mount point the
\* m-th successful Mount call returned.  So, when the collaborator returned
\* the same mount point for every mount of a container, the entries of a
\* container mounted more than once all have that mount point.
C15_NoCachingNoDedup ==
    ExplicitBranch =>
        /\ Len(ResolveCalls) <= Len(args)
        /\ \A k \in 1..Len(ResolveCalls) : ResolveCalls[k].arg = args[k]
        /\ Len(MountCalls) = Len(OkResolves) - (IF pc = "mount" THEN 1 ELSE 0)
        /\ \A k \in 1..Len(MountCalls) : MountCalls[k].arg = ContainerOf(OkResolves[k].arg)
        /\ pc = "return140" =>
              /\ Len(ResolveCalls) = Len(args)
              /\ Len(Stdout) > 0 \/ ~outputJSON
              /\ OutputMountPoints = [m \in 1..Len(OkMounts) |-> OkMounts[m].res]
              /\ IdempotentCollaborator =>
                    \A j, k \in 1..Len(OkMounts) :
                        OkMounts[j].arg = OkMounts[k].arg =>
                            OutputMountPoints[j] = OutputMountPoints[k]

\* the same target twice, mounted twice at the same place: two entries
C15_Witness ==
    /\ pc = "return140"
    /\ outputJSON
    /\ Len(args) = 2
    /\ args[1] = args[2]
    /\ Len(OkMounts) = 2
    /\ IdempotentCollaborator
    /\ Len(OutputMountPoints) = 2
    /\ OutputMountPoints[1] = OutputMountPoints[2]

(* ====================================================================== *)
(* C16                                                                    *)
(* ====================================================================== *)

\* the resolutions made so far are those of the first targets, one each, in
\* list order, whatever their outcomes and those of the mounts
ResolvedInOrder ==
    /\ Len(ResolveCalls) <= Len(args)
    /\ \A k \in 1..Len(ResolveCalls) : ResolveCalls[k].arg = args[k]
    /\ pc \in {"open", "mount"} =>
          Len(ResolveCalls) = (IF pc = "open" THEN i - 1 ELSE i)

\* the command returned from line 140 after one resolution of every target
ReturnedAfterAllTargets ==
    /\ pc = "return140"
    /\ Len(ResolveCalls) = Len(args)

\* C16: once the guard has passed, the targets are resolved one by one in
\* list order, each exactly once, whatever failed before; and the loop
\* ends: the command goes on to return from line 140, having made one
\* resolution attempt for every target.
C16_ContinueOnError ==
    /\ [](ExplicitBranch => ResolvedInOrder)
    /\ [](pc = "return140" /\ ExplicitBranch => Len(ResolveCalls) = Len(args))
    /\ (pc = "open") ~> ReturnedAfterAllTargets

\* three targets, the first two failed, the third was still resolved
C16_Witness ==
    /\ pc = "return140"
    /\ Len(args) = 3
    /\ ResolutionFailed(Attempts[1])
    /\ MountFailed(Attempts[2])
    /\ Len(ResolveCalls) = 3
    /\ ResolveCalls[3].arg = args[3]

(* ====================================================================== *)
(* C17                                                                    *)
(* ====================================================================== *)

\* the Mount Results produced so far: text lines, or collected objects
ResultsProduced == IF outputJSON THEN Len(jsonMounts.items) ELSE Len(Stdout)

\* C17: in the explicit-target branch every Mount call comes right after
\* the successful resolution of the same target, on the container that
\* resolution returned; every successful resolution is followed by exactly
\* one Mount call (or the command is about to make it); a failed
\* resolution is never followed by a Mount.  The Mount Results produced are
\* as many as the mounts that succeeded, and the JSON document holds as
\* many objects: a target that failed resolution or mount has none.
C17_MountOnlyAfterResolution ==
    ExplicitBranch =>
        /\ \A p \in 1..Len(calls) :
              calls[p].op = "Mount" =>
                  /\ p > 1
                  /\ calls[p - 1].op = "openBuilder"
                  /\ calls[p - 1].res = "ok"
                  /\ calls[p].arg = ContainerOf(calls[p - 1].arg)
        /\ \A p \in 1..Len(calls) :
              (calls[p].op = "openBuilder" /\ calls[p].res = "ok") =>
                  \/ p < Len(calls) /\ calls[p + 1].op = "Mount"
                  \/ p = Len(calls) /\ pc = "mount"
        /\ pc = "mount" =>
              /\ calls # <<>>
              /\ calls[Len(calls)] = Call("openBuilder", args[i], "ok")
        /\ ResultsProduced = Len(OkMounts)
        /\ (pc = "return140" /\ outputJSON) =>
              /\ Len(Stdout) = 1
              /\ Len(Decode(Stdout[1].data)) = Len(OkMounts)
        /\ (Len(args) > 1 /\ ~outputJSON) =>
              \A m \in 1..Len(Stdout) :
                  \E n \in Idents :
                      /\ ContainerOf(n) = OkMounts[m].arg
                      /\ Stdout[m].data = <<n \o " " \o OkMounts[m].res>>

\* one target failed resolution, one failed mount, one was mounted: two
\* Mount calls, one result
C17_Witness ==
    /\ pc = "return140"
    /\ Len(args) = 3
    /\ Cardinality({k \in 1..3 : ResolutionFailed(Attempts[k])}) = 1
    /\ Cardinality({k \in 1..3 : MountFailed(Attempts[k])}) = 1
    /\ Len(MountCalls) = 2
    /\ ResultsProduced = 1

(* ====================================================================== *)
(* C18                                                                    *)
(* ====================================================================== *)

\* the calls the no-args branch makes
ListOps == {"getStore", "openBuilders", "Mounted"}

\* C18: with an empty target list the command resolves no container by
\* name and attempts no mount: the only calls it makes are getStore,
\* openBuilders and the builders' Mounted queries, and at every moment,
\* whatever the queries answered and wherever the command returned, it
\* has added no mount to any container of the store.
C18_ListBranchReadOnly ==
    ListBranch =>
        /\ ResolveCalls = <<>>
        /\ MountCalls = <<>>
        /\ \A p \in 1..Len(calls) : calls[p].op \in ListOps
        /\ \A c \in Containers : mounts[c] = 0

\* three containers: one mounted, one not, and the third query failed
C18_Witness ==
    /\ ListBranch
    /\ pc = "return120"
    /\ Len(MountedCalls) = 3
    /\ MountedCalls[1].res = "true"
    /\ MountedCalls[2].res = "false"
    /\ \A c \in Containers : mounts[c] = 0

=============================================================================
